---- MODULE Spec2Model ----
(***************************************************************************)
(* Model of QuadControl (src/src/QuadControl.cpp): the cascaded quadrotor  *)
(* controller.  Every float of the program is a fixed-point integer with   *)
(* Scale units per 1.0 (100 = 1.0): a sum or difference is exact, a        *)
(* product or quotient is rounded toward zero to the next unit.            *)
(***************************************************************************)
EXTENDS Integers, Sequences, FiniteSets

\* ------------------------------------------------------------------------
\* Float arithmetic in fixed point
\* ------------------------------------------------------------------------

\* units per 1.0
Scale == 100

Abs(a) == IF a < 0 THEN -a ELSE a

\* F applied to the value of v: a local variable of the source, computed once
Let(v, F(_)) == CHOOSE r \in {F(x) : x \in {v}} : TRUE

\* the quotient rounded toward zero
TDiv(a, b) ==
    LET q == Abs(a) \div Abs(b)
    IN  IF (a < 0) = (b < 0) THEN q ELSE -q

\* float a * b
FMul(a, b) == TDiv(a * b, Scale)

\* float a / b, b # 0
FDiv(a, b) == TDiv(a * Scale, b)

\* IEEE-754 +infinity, the value a float division of a positive number by
\* zero yields: larger than every finite value of the model
Inf == 10 ^ 9

\* sqrtf: the root rounded down to the unit below
RECURSIVE SqrtSearch(_, _, _)
SqrtSearch(n, lo, hi) ==
    IF lo >= hi THEN lo
    ELSE LET mid == (lo + hi + 1) \div 2
         IN  IF mid * mid <= n THEN SqrtSearch(n, mid, hi)
             ELSE SqrtSearch(n, lo, mid - 1)

\* (the root of a 32-bit integer is below 46341)
ISqrt(n) == Let(n, LAMBDA v : SqrtSearch(v, 0, IF v < 46340 THEN v ELSE 46340))

\* sqrtf(2.f)
Sqrt2 == ISqrt(2 * Scale * Scale)

\* fmodf(a, b) for b > 0: the remainder with the sign of a
fmodf(a, b) == a - TDiv(a, b) * b

F_PI == 314

CONST_GRAVITY == 981

\* sin of the angles the configurations use (0.7 rad, the tuned value;
\* 100 rad, the default of Init; 0)
Sin(a) ==
    CASE a = 0 -> 0
      [] a = 70 -> 64
      [] a = 10000 -> -51

MIN(a, b) == IF a < b THEN a ELSE b

MAX(a, b) == IF a > b THEN a ELSE b

CONSTRAIN(a, low, high) == MAX(low, MIN(a, high))

\* ------------------------------------------------------------------------
\* V3F and the attitude
\* ------------------------------------------------------------------------

V3F(x, y, z) == [x |-> x, y |-> y, z |-> z]

V3Zero == V3F(0, 0, 0)

V3Add(a, b) == V3F(a.x + b.x, a.y + b.y, a.z + b.z)

V3Sub(a, b) == V3F(a.x - b.x, a.y - b.y, a.z - b.z)

\* V3F * V3F is element-wise
V3Mul(a, b) == V3F(FMul(a.x, b.x), FMul(a.y, b.y), FMul(a.z, b.z))

V3Scale(a, s) == V3F(FMul(a.x, s), FMul(a.y, s), FMul(a.z, s))

mag(a) == ISqrt(a.x * a.x + a.y * a.y + a.z * a.z)

\* norm(): the vector divided by its magnitude (called on non-zero vectors)
norm(a) == Let(mag(a), LAMBDA m : V3F(FDiv(a.x, m), FDiv(a.y, m), FDiv(a.z, m)))

\* An attitude: its rotation matrix (rows of RotationMatrix_IwrtB) and Yaw()
Attitude(r0, r1, r2, yaw) == [R |-> <<r0, r1, r2>>, yaw |-> yaw]

\* R(i,j) of the source, indices from 0
R(att, i, j) == att.R[i + 1][j + 1]

AttLevel == Attitude(<<100, 0, 0>>, <<0, 100, 0>>, <<0, 0, 100>>, 0)

AttTilted == Attitude(<<87, -49, 1>>, <<48, 85, -22>>, <<10, 20, 97>>, 50)

AttYawPi == Attitude(<<-100, 0, 0>>, <<0, -100, 0>>, <<0, 0, 100>>, F_PI)

AttTurned == Attitude(<<-41, 84, -35>>, <<-89, -45, -5>>, <<-20, 29, 94>>, -200)

\* ------------------------------------------------------------------------
\* Configuration: what Init loads
\* ------------------------------------------------------------------------

\* the vehicle's constants (BaseController) and a tuned parameter file
TunedConfig ==
    [ mass |-> 50, L |-> 17, kappa |-> 2,
      Ixx |-> 2, Iyy |-> 2, Izz |-> 4,
      kpPosXY |-> 200, kpPosZ |-> 200, KiPosZ |-> 500,
      kpVelXY |-> 300, kpVelZ |-> 400,
      kpBank |-> 800, kpYaw |-> 200,
      kpPQR |-> V3F(2000, 2000, 500),
      maxDescentRate |-> 200, maxAscentRate |-> 500,
      maxSpeedXY |-> 500, maxAccelXY |-> 1200,
      maxTiltAngle |-> 70,
      minMotorThrust |-> 10, maxMotorThrust |-> 450 ]

\* every key absent: the defaults of Init
DefaultConfig ==
    [ TunedConfig EXCEPT
      !.kpPosXY = 0, !.kpPosZ = 0, !.KiPosZ = 0,
      !.kpVelXY = 0, !.kpVelZ = 0,
      !.kpBank = 0, !.kpYaw = 0,
      !.kpPQR = V3Zero,
      !.maxDescentRate = 100 * Scale, !.maxAscentRate = 100 * Scale,
      !.maxSpeedXY = 100 * Scale, !.maxAccelXY = 100 * Scale,
      !.maxTiltAngle = 100 * Scale,
      !.minMotorThrust = 0, !.maxMotorThrust = 100 * Scale ]

\* the tuned gains with every limit at its edge: no tilt, no horizontal
\* speed or acceleration, equal motor limits, a small maxAscentRate
EdgeConfig ==
    [ TunedConfig EXCEPT
      !.maxAscentRate = 20,
      !.maxSpeedXY = 0, !.maxAccelXY = 0,
      !.maxTiltAngle = 0,
      !.minMotorThrust = 300, !.maxMotorThrust = 300 ]

Configs == {TunedConfig, DefaultConfig, EdgeConfig}

VARIABLES
    cfg,                      \* the parameters Init loaded
    integratedAltitudeError,  \* the altitude integral accumulator
    cmd,                      \* cmd.desiredThrustsN[0..3], as <<F1, F2, F3, F4>>
    call                      \* the last operation: its name, inputs and results

vars == <<cfg, integratedAltitudeError, cmd, call>>

\* ------------------------------------------------------------------------
\* QuadControl::Init
\* ------------------------------------------------------------------------

Init ==
    /\ cfg \in Configs
    /\ integratedAltitudeError = 0
    /\ cmd = <<0, 0, 0, 0>>
    /\ call = [op |-> "Init"]

\* ------------------------------------------------------------------------
\* QuadControl::GenerateMotorCommands
\* ------------------------------------------------------------------------

\* GenerateMotorCommands with the rear right thrust left unclamped
GenerateMotorCommandsRearRightUnclamped(c, collThrustCmd, momentCmd) ==
    LET l  == FDiv(c.L, Sqrt2)
        t1 == FDiv(momentCmd.x, l)
        t2 == FDiv(momentCmd.y, l)
        t3 == FDiv(-momentCmd.z, c.kappa)
        t4 == collThrustCmd
        raw == << TDiv(t1 + t2 + t3 + t4, 4),
                  TDiv(-t1 + t2 - t3 + t4, 4),
                  TDiv(t1 - t2 - t3 + t4, 4),
                  TDiv(-t1 - t2 + t3 + t4, 4) >>
    IN  [ t   |-> <<t1, t2, t3, t4>>,
          raw |-> raw,
          cmd |-> [i \in 1..4 |->
                     IF i = 4 THEN raw[i]
                     ELSE CONSTRAIN(raw[i], c.minMotorThrust, c.maxMotorThrust)] ]

\* GenerateMotorCommands with the sign of t3 flipped for the front right motor
GenerateMotorCommandsYawSignFlipped(c, collThrustCmd, momentCmd) ==
    LET l  == FDiv(c.L, Sqrt2)
        t1 == FDiv(momentCmd.x, l)
        t2 == FDiv(momentCmd.y, l)
        t3 == FDiv(-momentCmd.z, c.kappa)
        t4 == collThrustCmd
        raw == << TDiv(t1 + t2 + t3 + t4, 4),
                  TDiv(-t1 + t2 + t3 + t4, 4),
                  TDiv(t1 - t2 - t3 + t4, 4),
                  TDiv(-t1 - t2 + t3 + t4, 4) >>
    IN  [ t   |-> <<t1, t2, t3, t4>>,
          raw |-> raw,
          cmd |-> [i \in 1..4 |->
                     CONSTRAIN(raw[i], c.minMotorThrust, c.maxMotorThrust)] ]

GenerateMotorCommands(c, collThrustCmd, momentCmd) ==
    LET l  == FDiv(c.L, Sqrt2)
        t1 == FDiv(momentCmd.x, l)
        t2 == FDiv(momentCmd.y, l)
        t3 == FDiv(-momentCmd.z, c.kappa)
        t4 == collThrustCmd
        raw == << TDiv(t1 + t2 + t3 + t4, 4),
                  TDiv(-t1 + t2 - t3 + t4, 4),
                  TDiv(t1 - t2 - t3 + t4, 4),
                  TDiv(-t1 - t2 + t3 + t4, 4) >>
    IN  [ t   |-> <<t1, t2, t3, t4>>,
          raw |-> raw,
          cmd |-> [i \in 1..4 |->
                     CONSTRAIN(raw[i], c.minMotorThrust, c.maxMotorThrust)] ]

GenerateMotorCommandsCall(thrusts, moments) ==
    \E collThrustCmd \in thrusts, momentCmd \in moments :
        \E r \in {GenerateMotorCommands(cfg, collThrustCmd, momentCmd)} :
            /\ cmd' = r.cmd
            /\ call' = [op |-> "GenerateMotorCommands",
                        collThrustCmd |-> collThrustCmd, momentCmd |-> momentCmd,
                        t |-> r.t, raw |-> r.raw, ret |-> r.cmd]
            /\ UNCHANGED <<cfg, integratedAltitudeError>>

\* ------------------------------------------------------------------------
\* QuadControl::BodyRateControl
\* ------------------------------------------------------------------------

BodyRateControl(c, pqrCmd, pqr) ==
    LET I     == V3F(c.Ixx, c.Iyy, c.Izz)
        error == V3Sub(pqrCmd, pqr)
    IN  V3Mul(V3Mul(I, c.kpPQR), error)

BodyRateControlCall(rates) ==
    \E pqrCmd \in rates, pqr \in rates :
        /\ call' = [op |-> "BodyRateControl", pqrCmd |-> pqrCmd, pqr |-> pqr,
                    ret |-> BodyRateControl(cfg, pqrCmd, pqr)]
        /\ UNCHANGED <<cfg, integratedAltitudeError, cmd>>

\* ------------------------------------------------------------------------
\* QuadControl::RollPitchControl
\* ------------------------------------------------------------------------

\* b: the target tilt components <<b_x, b_y>>, empty when they are not computed
\* RollPitchControl with b_y left unclamped
RollPitchControlPitchUnclamped(c, accelCmd, attitude, collThrustCmd) ==
    IF collThrustCmd > 0
    THEN LET cAcc  == FDiv(-collThrustCmd, c.mass)
             b_x   == CONSTRAIN(FDiv(accelCmd.x, cAcc),
                                -Sin(c.maxTiltAngle), Sin(c.maxTiltAngle))
             b_y   == FDiv(accelCmd.y, cAcc)
             b_x_d == FMul(c.kpBank, b_x - R(attitude, 0, 2))
             b_y_d == FMul(c.kpBank, b_y - R(attitude, 1, 2))
         IN  [ b |-> <<b_x, b_y>>,
               pqrCmd |->
                 V3F(FDiv(FMul(R(attitude, 1, 0), b_x_d) - FMul(R(attitude, 0, 0), b_y_d),
                          R(attitude, 2, 2)),
                     FDiv(FMul(R(attitude, 1, 1), b_x_d) - FMul(R(attitude, 0, 1), b_y_d),
                          R(attitude, 2, 2)),
                     0) ]
    ELSE [ b |-> <<>>, pqrCmd |-> V3F(0, 0, 0) ]

\* RollPitchControl guarding collThrustCmd != 0 in place of > 0
RollPitchControlNonZeroGuard(c, accelCmd, attitude, collThrustCmd) ==
    IF collThrustCmd # 0
    THEN LET cAcc  == FDiv(-collThrustCmd, c.mass)
             b_x   == CONSTRAIN(FDiv(accelCmd.x, cAcc),
                                -Sin(c.maxTiltAngle), Sin(c.maxTiltAngle))
             b_y   == CONSTRAIN(FDiv(accelCmd.y, cAcc),
                                -Sin(c.maxTiltAngle), Sin(c.maxTiltAngle))
             b_x_d == FMul(c.kpBank, b_x - R(attitude, 0, 2))
             b_y_d == FMul(c.kpBank, b_y - R(attitude, 1, 2))
         IN  [ b |-> <<b_x, b_y>>,
               pqrCmd |->
                 V3F(FDiv(FMul(R(attitude, 1, 0), b_x_d) - FMul(R(attitude, 0, 0), b_y_d),
                          R(attitude, 2, 2)),
                     FDiv(FMul(R(attitude, 1, 1), b_x_d) - FMul(R(attitude, 0, 1), b_y_d),
                          R(attitude, 2, 2)),
                     0) ]
    ELSE [ b |-> <<>>, pqrCmd |-> V3F(0, 0, 0) ]

RollPitchControl(c, accelCmd, attitude, collThrustCmd) ==
    IF collThrustCmd > 0
    THEN LET cAcc  == FDiv(-collThrustCmd, c.mass)
             b_x   == CONSTRAIN(FDiv(accelCmd.x, cAcc),
                                -Sin(c.maxTiltAngle), Sin(c.maxTiltAngle))
             b_y   == CONSTRAIN(FDiv(accelCmd.y, cAcc),
                                -Sin(c.maxTiltAngle), Sin(c.maxTiltAngle))
             b_x_d == FMul(c.kpBank, b_x - R(attitude, 0, 2))
             b_y_d == FMul(c.kpBank, b_y - R(attitude, 1, 2))
         IN  [ b |-> <<b_x, b_y>>,
               pqrCmd |->
                 V3F(FDiv(FMul(R(attitude, 1, 0), b_x_d) - FMul(R(attitude, 0, 0), b_y_d),
                          R(attitude, 2, 2)),
                     FDiv(FMul(R(attitude, 1, 1), b_x_d) - FMul(R(attitude, 0, 1), b_y_d),
                          R(attitude, 2, 2)),
                     0) ]
    ELSE [ b |-> <<>>, pqrCmd |-> V3F(0, 0, 0) ]

RollPitchControlCall(accels, attitudes, thrusts) ==
    \E accelCmd \in accels, attitude \in attitudes, collThrustCmd \in thrusts :
        \E r \in {RollPitchControl(cfg, accelCmd, attitude, collThrustCmd)} :
            /\ call' = [op |-> "RollPitchControl", accelCmd |-> accelCmd,
                        attitude |-> attitude, collThrustCmd |-> collThrustCmd,
                        b |-> r.b, ret |-> r.pqrCmd]
            /\ UNCHANGED <<cfg, integratedAltitudeError, cmd>>

\* ------------------------------------------------------------------------
\* QuadControl::AltitudeControl
\* ------------------------------------------------------------------------

\* maxAscentRate / dt: the configurations keep maxAscentRate > 0, and the
\* float division of a positive number by zero is +infinity
SaturationBound(c, dt) == IF dt = 0 THEN Inf ELSE FDiv(c.maxAscentRate, dt)

\* integ: the accumulator after the call; divisor: what maxAscentRate was
\* divided by; acc, bound: the acceleration before its saturation, and the bound
\* AltitudeControl with -= in place of += on the accumulator
AltitudeControlSubtracts(c, integ, posZCmd, velZCmd, posZ, velZ, attitude, accelZCmd, dt) ==
    LET zErr      == posZCmd - posZ
        pTerm     == FMul(c.kpPosZ, zErr)
        z_dot_err == velZCmd - velZ
        integ1    == integ - FMul(zErr, dt)
        dTerm     == FMul(c.kpVelZ, z_dot_err) + velZ
        iTerm     == FMul(c.KiPosZ, integ1)
        b_z       == R(attitude, 2, 2)
        u_1_bar   == pTerm + dTerm + iTerm + accelZCmd
        acc       == FDiv(u_1_bar - CONST_GRAVITY, b_z)
        bound     == SaturationBound(c, dt)
    IN  [ integ   |-> integ1,
          zErr    |-> zErr,
          divisor |-> dt,
          acc     |-> acc,
          bound   |-> bound,
          thrust  |-> FMul(-c.mass, CONSTRAIN(acc, -bound, bound)) ]

\* AltitudeControl with = in place of += on the accumulator
AltitudeControlOverwrites(c, integ, posZCmd, velZCmd, posZ, velZ, attitude, accelZCmd, dt) ==
    LET zErr      == posZCmd - posZ
        pTerm     == FMul(c.kpPosZ, zErr)
        z_dot_err == velZCmd - velZ
        integ1    == FMul(zErr, dt)
        dTerm     == FMul(c.kpVelZ, z_dot_err) + velZ
        iTerm     == FMul(c.KiPosZ, integ1)
        b_z       == R(attitude, 2, 2)
        u_1_bar   == pTerm + dTerm + iTerm + accelZCmd
        acc       == FDiv(u_1_bar - CONST_GRAVITY, b_z)
        bound     == SaturationBound(c, dt)
    IN  [ integ   |-> integ1,
          zErr    |-> zErr,
          divisor |-> dt,
          acc     |-> acc,
          bound   |-> bound,
          thrust  |-> FMul(-c.mass, CONSTRAIN(acc, -bound, bound)) ]

AltitudeControl(c, integ, posZCmd, velZCmd, posZ, velZ, attitude, accelZCmd, dt) ==
    LET zErr      == posZCmd - posZ
        pTerm     == FMul(c.kpPosZ, zErr)
        z_dot_err == velZCmd - velZ
        integ1    == integ + FMul(zErr, dt)
        dTerm     == FMul(c.kpVelZ, z_dot_err) + velZ
        iTerm     == FMul(c.KiPosZ, integ1)
        b_z       == R(attitude, 2, 2)
        u_1_bar   == pTerm + dTerm + iTerm + accelZCmd
        acc       == FDiv(u_1_bar - CONST_GRAVITY, b_z)
        bound     == SaturationBound(c, dt)
    IN  [ integ   |-> integ1,
          zErr    |-> zErr,
          divisor |-> dt,
          acc     |-> acc,
          bound   |-> bound,
          thrust  |-> FMul(-c.mass, CONSTRAIN(acc, -bound, bound)) ]

\* the accumulator is unbounded in the program; the model stops calling once
\* it would leave -MaxInteg..MaxInteg
MaxInteg == 2

AltitudeControlCall(posZCmds, velZCmds, posZs, velZs, attitudes, accelZs, dts) ==
    \E posZCmd \in posZCmds, velZCmd \in velZCmds, posZ \in posZs, velZ \in velZs,
       attitude \in attitudes, accelZCmd \in accelZs, dt \in dts :
        \E r \in {AltitudeControl(cfg, integratedAltitudeError, posZCmd, velZCmd,
                                 posZ, velZ, attitude, accelZCmd, dt)} :
            /\ Abs(r.integ) <= MaxInteg
            /\ integratedAltitudeError' = r.integ
            /\ call' = [op |-> "AltitudeControl", posZCmd |-> posZCmd,
                        velZCmd |-> velZCmd, posZ |-> posZ, velZ |-> velZ,
                        attitude |-> attitude, accelZCmd |-> accelZCmd, dt |-> dt,
                        zErr |-> r.zErr, divisor |-> r.divisor,
                        acc |-> r.acc, bound |-> r.bound, ret |-> r.thrust]
            /\ UNCHANGED <<cfg, cmd>>

\* ------------------------------------------------------------------------
\* QuadControl::LateralPositionControl
\* ------------------------------------------------------------------------

\* LateralPositionControl without the cap to maxAccelXY
LateralPositionControlUncapped(c, posCmd0, velCmd0, pos, vel, accelCmdFF0) ==
    LET accelCmdFF == [accelCmdFF0 EXCEPT !.z = 0]
        velCmd     == [velCmd0 EXCEPT !.z = 0]
        posCmd     == [posCmd0 EXCEPT !.z = pos.z]
        kpPos      == V3F(c.kpPosXY, c.kpPosXY, 0)
        kpVel      == V3F(c.kpVelXY, c.kpVelXY, 0)
    IN  Let(IF mag(velCmd) > c.maxSpeedXY
            THEN V3Scale(norm(velCmd), c.maxSpeedXY)
            ELSE velCmd,
            LAMBDA capVelCmd :
        Let(V3Add(V3Add(V3Mul(kpPos, V3Sub(posCmd, pos)),
                        V3Mul(kpVel, V3Sub(capVelCmd, vel))),
                  accelCmdFF),
            LAMBDA accelCmd :
        [ capVelCmd |-> capVelCmd,
          accelCmd |-> accelCmd,
          ret |-> accelCmd ]))

LateralPositionControl(c, posCmd0, velCmd0, pos, vel, accelCmdFF0) ==
    LET accelCmdFF == [accelCmdFF0 EXCEPT !.z = 0]
        velCmd     == [velCmd0 EXCEPT !.z = 0]
        posCmd     == [posCmd0 EXCEPT !.z = pos.z]
        kpPos      == V3F(c.kpPosXY, c.kpPosXY, 0)
        kpVel      == V3F(c.kpVelXY, c.kpVelXY, 0)
    IN  Let(IF mag(velCmd) > c.maxSpeedXY
            THEN V3Scale(norm(velCmd), c.maxSpeedXY)
            ELSE velCmd,
            LAMBDA capVelCmd :
        Let(V3Add(V3Add(V3Mul(kpPos, V3Sub(posCmd, pos)),
                        V3Mul(kpVel, V3Sub(capVelCmd, vel))),
                  accelCmdFF),
            LAMBDA accelCmd :
        [ capVelCmd |-> capVelCmd,
          accelCmd |-> accelCmd,
          ret |-> IF mag(accelCmd) > c.maxAccelXY
                  THEN V3Scale(norm(accelCmd), c.maxAccelXY)
                  ELSE accelCmd ]))

LateralPositionControlCall(posCmds, velCmds, poss, vels, accels) ==
    \E posCmd \in posCmds, velCmd \in velCmds, pos \in poss,
       vel \in vels, accelCmdFF \in accels :
        \E r \in {LateralPositionControl(cfg, posCmd, velCmd, pos, vel, accelCmdFF)} :
            /\ call' = [op |-> "LateralPositionControl", posCmd |-> posCmd,
                        velCmd |-> velCmd, pos |-> pos, vel |-> vel,
                        accelCmdFF |-> accelCmdFF,
                        capVelCmd |-> r.capVelCmd, accelCmd |-> r.accelCmd,
                        ret |-> r.ret]
            /\ UNCHANGED <<cfg, integratedAltitudeError, cmd>>

\* ------------------------------------------------------------------------
\* QuadControl::YawControl
\* ------------------------------------------------------------------------

\* YawControl without the wrap of an error below -pi
YawControlNoUpwardWrap(c, yawCmd, yaw) ==
    LET yawCmdToPi == IF yawCmd > 0 THEN fmodf(yawCmd, 2 * F_PI)
                      ELSE -fmodf(-yawCmd, 2 * F_PI)
        err0 == yawCmdToPi - yaw
        err1 == IF err0 > F_PI THEN err0 - 2 * F_PI ELSE err0
        err  == err1
    IN  [ err |-> err, yawRateCmd |-> FMul(c.kpYaw, err) ]

YawControl(c, yawCmd, yaw) ==
    LET yawCmdToPi == IF yawCmd > 0 THEN fmodf(yawCmd, 2 * F_PI)
                      ELSE -fmodf(-yawCmd, 2 * F_PI)
        err0 == yawCmdToPi - yaw
        err1 == IF err0 > F_PI THEN err0 - 2 * F_PI ELSE err0
        err  == IF err1 < -F_PI THEN err1 + 2 * F_PI ELSE err1
    IN  [ err |-> err, yawRateCmd |-> FMul(c.kpYaw, err) ]

YawControlCall(yawCmds, yaws) ==
    \E yawCmd \in yawCmds, yaw \in yaws :
        \E r \in {YawControl(cfg, yawCmd, yaw)} :
            /\ call' = [op |-> "YawControl", yawCmd |-> yawCmd, yaw |-> yaw,
                        err |-> r.err, ret |-> r.yawRateCmd]
            /\ UNCHANGED <<cfg, integratedAltitudeError, cmd>>

\* ------------------------------------------------------------------------
\* QuadControl::RunControl
\* ------------------------------------------------------------------------

\* traj: GetNextTrajectoryPoint(simTime); est: estPos, estVel, estAtt, estOmega
\* RunControl handing the unclamped altitude output to RollPitchControl
RunControlUnclampedToRollPitch(c, integ, traj, est, dt) ==
    Let(AltitudeControl(c, integ, traj.position.z, traj.velocity.z,
                        est.pos.z, est.vel.z, est.att, traj.accel.z, dt),
        LAMBDA alt :
    Let(FMul(Scale \div 10, c.maxMotorThrust - c.minMotorThrust),
        LAMBDA thrustMargin :
    Let(CONSTRAIN(alt.thrust, (c.minMotorThrust + thrustMargin) * 4,
                  (c.maxMotorThrust - thrustMargin) * 4),
        LAMBDA collThrustCmd :
    Let(LateralPositionControl(c, traj.position, traj.velocity,
                               est.pos, est.vel, traj.accel).ret,
        LAMBDA desAcc :
    Let(RollPitchControl(c, desAcc, est.att, alt.thrust).pqrCmd,
        LAMBDA pqrCmd :
    Let([pqrCmd EXCEPT
           !.z = YawControl(c, traj.attitude.yaw, est.att.yaw).yawRateCmd],
        LAMBDA desOmega :
    Let(BodyRateControl(c, desOmega, est.omega),
        LAMBDA desMoment :
    [ integ |-> alt.integ, zErr |-> alt.zErr, divisor |-> alt.divisor,
      altThrust |-> alt.thrust,
      collThrustCmd |-> collThrustCmd,
      desAcc |-> desAcc, desOmega |-> desOmega, desMoment |-> desMoment,
      cmd |-> GenerateMotorCommands(c, collThrustCmd, desMoment).cmd ])))))))

RunControl(c, integ, traj, est, dt) ==
    Let(AltitudeControl(c, integ, traj.position.z, traj.velocity.z,
                        est.pos.z, est.vel.z, est.att, traj.accel.z, dt),
        LAMBDA alt :
    Let(FMul(Scale \div 10, c.maxMotorThrust - c.minMotorThrust),
        LAMBDA thrustMargin :
    Let(CONSTRAIN(alt.thrust, (c.minMotorThrust + thrustMargin) * 4,
                  (c.maxMotorThrust - thrustMargin) * 4),
        LAMBDA collThrustCmd :
    Let(LateralPositionControl(c, traj.position, traj.velocity,
                               est.pos, est.vel, traj.accel).ret,
        LAMBDA desAcc :
    Let(RollPitchControl(c, desAcc, est.att, collThrustCmd).pqrCmd,
        LAMBDA pqrCmd :
    Let([pqrCmd EXCEPT
           !.z = YawControl(c, traj.attitude.yaw, est.att.yaw).yawRateCmd],
        LAMBDA desOmega :
    Let(BodyRateControl(c, desOmega, est.omega),
        LAMBDA desMoment :
    [ integ |-> alt.integ, zErr |-> alt.zErr, divisor |-> alt.divisor,
      altThrust |-> alt.thrust,
      collThrustCmd |-> collThrustCmd,
      desAcc |-> desAcc, desOmega |-> desOmega, desMoment |-> desMoment,
      cmd |-> GenerateMotorCommands(c, collThrustCmd, desMoment).cmd ])))))))

RunControlCall(trajs, ests, dts) ==
    \E traj \in trajs, est \in ests, dt \in dts :
        \E r \in {RunControl(cfg, integratedAltitudeError, traj, est, dt)} :
            /\ Abs(r.integ) <= MaxInteg
            /\ integratedAltitudeError' = r.integ
            /\ cmd' = r.cmd
            /\ call' = [op |-> "RunControl", traj |-> traj, est |-> est, dt |-> dt,
                        zErr |-> r.zErr, divisor |-> r.divisor,
                        altThrust |-> r.altThrust,
                        collThrustCmd |-> r.collThrustCmd,
                        desAcc |-> r.desAcc, desOmega |-> r.desOmega,
                        desMoment |-> r.desMoment, ret |-> r.cmd]
            /\ UNCHANGED cfg

\* ------------------------------------------------------------------------
\* The inputs
\* ------------------------------------------------------------------------

\* the tick lengths 0..MaxDt, in hundredths of a second
MaxDt == 2

Dts == 0..MaxDt

TrajPoint(position, velocity, accel, yaw) ==
    [position |-> position, velocity |-> velocity, accel |-> accel,
     attitude |-> [yaw |-> yaw]]

TrajPoints ==
    { TrajPoint(V3F(0, 0, -100), V3Zero, V3Zero, 0),
      TrajPoint(V3F(100, -50, -200), V3F(200, 0, -50), V3F(0, 100, 1600), F_PI),
      TrajPoint(V3F(0, 0, -100), V3F(0, 0, -100), V3F(-200, 0, -3000), -F_PI \div 2) }

EstState(pos, vel, att, omega) ==
    [pos |-> pos, vel |-> vel, att |-> att, omega |-> omega]

EstStates ==
    { EstState(V3F(0, 0, -100), V3Zero, AttLevel, V3Zero),
      EstState(V3F(50, 0, -150), V3F(100, -100, 20), AttTilted, V3F(10, -10, 5)) }

\* moments and thrusts whose t1..t4 are whole multiples of 4 units, so that
\* the division by 4.f is exact
MixerThrusts == {-400, 0, 400, 800, 1200, 2000}

MixerMoments ==
    {V3F(x, y, z) : x \in {-48, 0, 12, 24}, y \in {-24, 0, 12}, z \in {-8, 0, 16}}

NextMixer == GenerateMotorCommandsCall(MixerThrusts, MixerMoments)

\* GenerateMotorCommands alone, over the mixer's inputs
SpecMixer == Init /\ [][NextMixer]_vars

\* yaw angles: the quarter turns up to MaxQuarterTurns either way
MaxQuarterTurns == 6

YawValues == {k * (F_PI \div 2) : k \in -MaxQuarterTurns..MaxQuarterTurns}

NextYaw == YawControlCall(YawValues, YawValues)

\* YawControl alone
SpecYaw == Init /\ [][NextYaw]_vars

TiltAccels == {V3F(x, y, z) : x \in {-900, 0, 300}, y \in {-300, 0, 900}, z \in {50}}

TiltThrusts == {-400, 0, 400, 1600}

NextRollPitch ==
    RollPitchControlCall(TiltAccels, {AttLevel, AttTilted, AttYawPi, AttTurned},
                         TiltThrusts)

\* RollPitchControl alone
SpecRollPitch == Init /\ [][NextRollPitch]_vars

LateralPositions == {V3F(0, 0, -100), V3F(400, 300, -50), V3F(-1000, 200, 30)}

LateralVelocities == {V3F(0, 0, 20), V3F(600, -800, 0), V3F(-100, 50, -300)}

LateralAccels == {V3Zero, V3F(300, -900, 50), V3F(0, 100, -700)}

NextLateral ==
    LateralPositionControlCall(LateralPositions, LateralVelocities,
                               LateralPositions, LateralVelocities, LateralAccels)

\* LateralPositionControl alone
SpecLateral == Init /\ [][NextLateral]_vars

\* the inputs of the single calls under Spec
FewThrusts == {-400, 800}

FewMoments == {V3Zero, V3F(12, -24, 16)}

FewRates == {V3Zero, V3F(50, -20, 10)}

FewAccels == {V3Zero, V3F(300, -900, 50)}

FewPositions == {V3F(0, 0, -100), V3F(400, 300, -50)}

FewVelocities == {V3F(0, 0, 20), V3F(600, -800, 0)}

FewYaws == {0, 3 * F_PI}

FewPosZs == {-100, 0, 50}

Next ==
    \/ GenerateMotorCommandsCall(FewThrusts, FewMoments)
    \/ BodyRateControlCall(FewRates)
    \/ RollPitchControlCall(FewAccels, {AttTilted}, FewThrusts)
    \/ AltitudeControlCall(FewPosZs, {0}, {0}, {20}, {AttLevel, AttTilted}, {0}, Dts)
    \/ LateralPositionControlCall(FewPositions, FewVelocities, {V3Zero},
                                  {V3Zero}, FewAccels)
    \/ YawControlCall(FewYaws, FewYaws)
    \/ RunControlCall(TrajPoints, EstStates, Dts)

Spec == Init /\ [][Next]_vars

\* ------------------------------------------------------------------------
\* The claims
\* ------------------------------------------------------------------------

IsMixerCall == call.op = "GenerateMotorCommands"

IsRunCall == call.op = "RunControl"

IsAltitudeCall == call.op = "AltitudeControl"

IsRollPitchCall == call.op = "RollPitchControl"

IsLateralCall == call.op = "LateralPositionControl"

IsYawCall == call.op = "YawControl"

\* C1: with minMotorThrust <= maxMotorThrust, each of the four thrusts that
\* GenerateMotorCommands returns, and so each thrust of the MotorCommand that
\* RunControl returns after any sequence of ticks, lies within
\* [minMotorThrust, maxMotorThrust].
C1_MotorThrustsWithinLimits ==
    (cfg.minMotorThrust <= cfg.maxMotorThrust /\ (IsMixerCall \/ IsRunCall))
        => \A i \in 1..4 :
              /\ cfg.minMotorThrust <= call.ret[i]
              /\ call.ret[i] <= cfg.maxMotorThrust

\* a tick after which one motor is held at the upper limit and another at the
\* lower one, with the accumulator away from 0
C1_Witness ==
    /\ IsRunCall
    /\ integratedAltitudeError # 0
    /\ \E i, j \in 1..4 : /\ call.ret[i] = cfg.maxMotorThrust
                          /\ call.ret[j] = cfg.minMotorThrust

\* C2 as stated: for all desired and all current yaw, with no range
\* restriction on either, the yaw error lies in [-pi, pi] and the returned
\* rate has magnitude at most |kpYaw| * pi.
C2_YawErrorWithinPi_AnyYaw ==
    IsYawCall =>
        /\ -F_PI <= call.err /\ call.err <= F_PI
        /\ Abs(call.ret) <= Abs(FMul(cfg.kpYaw, F_PI))

\* C2 amended: for all desired yaw and every current yaw within [-pi, pi]
\* (the range of Quaternion::Yaw()), the yaw error lies in [-pi, pi] and the
\* returned rate has magnitude at most |kpYaw| * pi.
C2_YawErrorWithinPi ==
    (IsYawCall /\ -F_PI <= call.yaw /\ call.yaw <= F_PI) =>
        /\ -F_PI <= call.err /\ call.err <= F_PI
        /\ Abs(call.ret) <= Abs(FMul(cfg.kpYaw, F_PI))

\* desired yaw 3*pi/2 against current yaw -pi: the raw error 5*pi/2 is
\* wrapped once, to pi/2
C2_Witness ==
    /\ IsYawCall
    /\ call.yawCmd = 3 * (F_PI \div 2)
    /\ call.yaw = -F_PI
    /\ call.err = F_PI \div 2

\* C3: in RollPitchControl with collThrustCmd > 0, for every desired
\* acceleration and every maxTiltAngle (the default 100 included), the target
\* tilt components b_x and b_y have absolute value at most |sin(maxTiltAngle)|.
C3_TiltWithinMaxTilt ==
    (IsRollPitchCall /\ call.collThrustCmd > 0) =>
        \A i \in 1..2 : Abs(call.b[i]) <= Abs(Sin(cfg.maxTiltAngle))

\* the default maxTiltAngle, whose sine is negative, with a desired
\* acceleration that asks for more tilt than the bound
C3_Witness ==
    /\ IsRollPitchCall
    /\ call.collThrustCmd > 0
    /\ cfg.maxTiltAngle = 100 * Scale
    /\ Abs(FDiv(call.accelCmd.x, FDiv(-call.collThrustCmd, cfg.mass)))
         > Abs(Sin(cfg.maxTiltAngle))
    /\ Abs(call.b[1]) = Abs(Sin(cfg.maxTiltAngle))

\* C4: RollPitchControl with collThrustCmd <= 0 returns roll and pitch rates
\* (0, 0) for every desired acceleration and attitude, and for every input
\* the Z component of the returned rates is 0.
C4_ZeroRatesWithoutThrust ==
    IsRollPitchCall =>
        /\ call.collThrustCmd <= 0 => (call.ret.x = 0 /\ call.ret.y = 0)
        /\ call.ret.z = 0

\* no thrust, a desired acceleration and a tilted attitude
C4_Witness ==
    /\ IsRollPitchCall
    /\ call.collThrustCmd < 0
    /\ call.accelCmd.x # 0
    /\ call.attitude = AttTilted
    /\ cfg.kpBank # 0

\* C5: over AltitudeControl calls (RunControl's included) with dt > 0, the
\* accumulator never decreases in a call whose zErr >= 0 and never increases
\* in a call whose zErr <= 0; so it changes monotonically over any sequence
\* of calls whose zErr keeps its sign.
C5_AccumulatorMonotone ==
    [][ ((IsAltitudeCall \/ IsRunCall)' /\ call'.dt > 0) =>
          /\ call'.zErr >= 0 => integratedAltitudeError' >= integratedAltitudeError
          /\ call'.zErr <= 0 => integratedAltitudeError' <= integratedAltitudeError
      ]_vars

\* the accumulator has grown to 2 over calls with zErr > 0
C5_Witness ==
    /\ IsAltitudeCall
    /\ call.zErr > 0
    /\ call.dt > 0
    /\ integratedAltitudeError = 2

\* C6: AltitudeControl guards dt = 0: maxAscentRate is never divided by a
\* zero dt (a minimum-dt clamp), in a direct call and in a tick.
C6_SaturationBoundDivisorNonZero ==
    (IsAltitudeCall \/ IsRunCall) => call.divisor > 0

\* C7: for every input of LateralPositionControl and maxAccelXY >= 0, the
\* returned acceleration has Z component 0 and magnitude at most maxAccelXY
\* (the magnitude as mag() gives it, to the unit of the fixed-point values).
C7_LateralAccelCapped ==
    (IsLateralCall /\ cfg.maxAccelXY >= 0) =>
        /\ call.ret.z = 0
        /\ mag(call.ret) <= cfg.maxAccelXY

\* commands with Z components and an acceleration beyond maxAccelXY before
\* the cap
C7_Witness ==
    /\ IsLateralCall
    /\ call.accelCmdFF.z # 0 /\ call.velCmd.z # 0 /\ call.posCmd.z # call.pos.z
    /\ mag(call.accelCmd) > cfg.maxAccelXY
    /\ call.ret # call.accelCmd

\* the zErr and dt of an AltitudeControl call, direct or of a tick
CallZErr(k) ==
    IF k.op = "RunControl" THEN k.traj.position.z - k.est.pos.z
    ELSE k.posZCmd - k.posZ

\* C8: the accumulator is 0 after Init; an AltitudeControl call, and so a
\* RunControl tick, adds exactly zErr * dt to it, once, also when the thrust
\* is saturated; every other operation leaves it unchanged.
C8_AccumulatorOwnedByAltitudeControl ==
    /\ integratedAltitudeError = 0
    /\ [][ IF (IsAltitudeCall \/ IsRunCall)'
           THEN integratedAltitudeError' =
                  integratedAltitudeError + FMul(CallZErr(call'), call'.dt)
           ELSE integratedAltitudeError' = integratedAltitudeError
         ]_vars

\* a call whose acceleration was saturated to maxAscentRate / dt and which
\* moved the accumulator
C8_Witness ==
    /\ IsAltitudeCall
    /\ Abs(call.acc) > call.bound
    /\ FMul(CallZErr(call), call.dt) # 0
    /\ integratedAltitudeError # 0

\* the margin's interval of RunControl
ThrustMargin == FMul(Scale \div 10, cfg.maxMotorThrust - cfg.minMotorThrust)

MarginLow == (cfg.minMotorThrust + ThrustMargin) * 4

MarginHigh == (cfg.maxMotorThrust - ThrustMargin) * 4

\* C9: in every tick with minMotorThrust <= maxMotorThrust, the roll and
\* pitch rates and the motor thrusts are those RollPitchControl and
\* GenerateMotorCommands return for the AltitudeControl output clamped into
\* [4*(min+margin), 4*(max-margin)], margin = 0.1*(max-min): the unclamped
\* output reaches no later stage.
C9_ClampedThrustUsed ==
    (IsRunCall /\ cfg.minMotorThrust <= cfg.maxMotorThrust) =>
        Let(CONSTRAIN(call.altThrust, MarginLow, MarginHigh),
            LAMBDA clamped :
              /\ MarginLow <= clamped /\ clamped <= MarginHigh
              /\ call.collThrustCmd = clamped
              /\ Let(RollPitchControl(cfg, call.desAcc, call.est.att, clamped).pqrCmd,
                     LAMBDA pqrCmd : /\ call.desOmega.x = pqrCmd.x
                                     /\ call.desOmega.y = pqrCmd.y)
              /\ call.ret = GenerateMotorCommands(cfg, clamped, call.desMoment).cmd)

\* a tick whose altitude output lay below the interval, with a desired
\* acceleration for RollPitchControl to act on
C9_Witness ==
    /\ IsRunCall
    /\ call.altThrust < MarginLow
    /\ call.altThrust <= 0
    /\ call.desAcc # V3Zero
    /\ call.desOmega.x # 0

\* t1..t4 of a GenerateMotorCommands call, from its inputs
MixerT(k) ==
    Let(FDiv(cfg.L, Sqrt2),
        LAMBDA l : << FDiv(k.momentCmd.x, l), FDiv(k.momentCmd.y, l),
                      FDiv(-k.momentCmd.z, cfg.kappa), k.collThrustCmd >>)

====
